---- MODULE Spec2Model ----
(***************************************************************************)
(* Model of minimotif_scripts/detection_pwm.py: PWM-based detection of     *)
(* transcription-factor binding sites.                                     *)
(*                                                                         *)
(* Conventions.                                                            *)
(*  - A Python str is a tuple of one-character strings.                    *)
(*  - A float score is an integer number of tenths (1.9 is 19); a          *)
(*    comparison against a half (x/2) is made on the doubled values, so    *)
(*    that no rounding is introduced by the model.                         *)
(*  - A Python list is a tuple; Python index k is TLA+ index k+1.          *)
(*  - A function that raises returns a record with ok = FALSE and the      *)
(*    exception's name in err.                                             *)
(***************************************************************************)
EXTENDS Integers, Sequences, FiniteSets, TLC

VARIABLES
    args,               \* arguments of the function under study (pure-function specifications)
    ret,                \* what the functions under study returned
    pc,                 \* position in run_pwm_detection / run_lightmotif
    coding,             \* run_pwm_detection: the coding flag
    bg_dis,             \* run_pwm_detection: background distribution
    pwm,                \* run_pwm_detection: position weight matrix
    thresholds_pwm,     \* run_pwm_detection: [max_pwm, strict_threshold]
    scoring_matrix,     \* run_pwm_detection: lightmotif.ScoringMatrix
    pvalue_threshold,   \* run_pwm_detection: minimum reported score
    lm,                 \* run_lightmotif: its parameters (filename, pssm, pvalue_threshold, thresholds_pwm)
    fasta,              \* run_lightmotif: the records of the file being parsed
    pos,                \* run_lightmotif: number of records consumed from the file
    record,             \* run_lightmotif: header groups of the record being recorded
    indices,            \* run_lightmotif: the (i, strand) pairs still to record
    results_dict,       \* run_lightmotif: region -> list of matches, in key insertion order
    files,              \* files written so far, in order of writing
    error,              \* name of the exception that ended the run, or "none"
    nread               \* records handed to run_lightmotif so far, over both passes

vars == <<args, ret, pc, coding, bg_dis, pwm, thresholds_pwm, scoring_matrix,
          pvalue_threshold, lm, fasta, pos, record, indices, results_dict,
          files, error, nread>>

runvars == <<pc, coding, bg_dis, pwm, thresholds_pwm, scoring_matrix,
             pvalue_threshold, lm, fasta, pos, record, indices, results_dict,
             files, error, nread>>

\* the outcome of a call that returned v
Return(v) == [ok |-> TRUE, err |-> "none", val |-> v]

\* the outcome of a call that raised exception e
Raise(e) == [ok |-> FALSE, err |-> e, val |-> <<>>]

\* one recorded hit: the key it is stored under and its row
Stored(key, row) == Return([key |-> key, row |-> row])

NotCalled == Raise("not called")

(***************************************************************************)
(* Python str and int primitives                                           *)
(***************************************************************************)
Digits == {"0", "1", "2", "3", "4", "5", "6", "7", "8", "9"}

DigitVal(c) ==
    CASE c = "0" -> 0 [] c = "1" -> 1 [] c = "2" -> 2 [] c = "3" -> 3
      [] c = "4" -> 4 [] c = "5" -> 5 [] c = "6" -> 6 [] c = "7" -> 7
      [] c = "8" -> 8 [] c = "9" -> 9

DigitChar(d) ==
    CASE d = 0 -> "0" [] d = 1 -> "1" [] d = 2 -> "2" [] d = 3 -> "3"
      [] d = 4 -> "4" [] d = 5 -> "5" [] d = 6 -> "6" [] d = 7 -> "7"
      [] d = 8 -> "8" [] d = 9 -> "9"

IsDigits(s) == Len(s) > 0 /\ \A k \in 1..Len(s) : s[k] \in Digits

\* int(s) for a string of decimal digits
RECURSIVE int(_)
int(s) ==
    IF Len(s) = 0 THEN 0
    ELSE 10 * int(SubSeq(s, 1, Len(s) - 1)) + DigitVal(s[Len(s)])

\* str(n), the f-string formatting of a non-negative int
RECURSIVE str(_)
str(n) ==
    IF n < 10 THEN <<DigitChar(n)>>
    ELSE str(n \div 10) \o <<DigitChar(n % 10)>>

\* s.count(c)
count(s, c) == Cardinality({k \in 1..Len(s) : s[k] = c})

\* s.split(sep) for a one-character separator
RECURSIVE split(_, _)
split(s, sep) ==
    IF \E k \in 1..Len(s) : s[k] = sep
    THEN LET k == CHOOSE k \in 1..Len(s) :
                      s[k] = sep /\ \A j \in 1..(k - 1) : s[j] # sep
         IN  <<SubSeq(s, 1, k - 1)>> \o split(SubSeq(s, k + 1, Len(s)), sep)
    ELSE <<s>>

\* sep.join(parts)
RECURSIVE join(_, _)
join(parts, sep) ==
    IF Len(parts) = 0 THEN <<>>
    ELSE IF Len(parts) = 1 THEN parts[1]
    ELSE parts[1] \o <<sep>> \o join(Tail(parts), sep)

\* float(s) in tenths, for a string [-]digits.digit (the scores MOODS prints)
float(s) ==
    LET neg   == Len(s) > 0 /\ s[1] = "-"
        body  == IF neg THEN Tail(s) ELSE s
        parts == split(body, ".")
        mag   == 10 * int(parts[1]) + (IF Len(parts) > 1 THEN int(parts[2]) ELSE 0)
    IN  IF neg THEN 0 - mag ELSE mag

(***************************************************************************)
(* header_rx: a run of non-tilde characters, a tilde, digits, a colon,      *)
(* digits, a tilde, and the rest of the string; four groups.               *)
(***************************************************************************)
\* end (exclusive) of the longest run of characters other than c starting at p
RECURSIVE RunEndNot(_, _, _)
RunEndNot(s, p, c) ==
    IF p > Len(s) \/ s[p] = c THEN p ELSE RunEndNot(s, p + 1, c)

\* end (exclusive) of the longest run of digits starting at p
RECURSIVE RunEndDigits(_, _)
RunEndDigits(s, p) ==
    IF p > Len(s) \/ s[p] \notin Digits THEN p ELSE RunEndDigits(s, p + 1)

\* the match of header_rx anchored at position p. Each quantified group is a
\* run of one character class followed by a character outside the class, so
\* the greedy run is the only candidate and backtracking finds no other match.
header_rx_at(s, p) ==
    LET e1 == RunEndNot(s, p, "~")
        e2 == RunEndDigits(s, e1 + 1)
        e3 == RunEndDigits(s, e2 + 1)
    IN  IF /\ e1 <= Len(s) /\ s[e1] = "~"
           /\ e2 > e1 + 1 /\ e2 <= Len(s) /\ s[e2] = ":"
           /\ e3 > e2 + 1 /\ e3 <= Len(s) /\ s[e3] = "~"
        THEN [ok |-> TRUE,
              groups |-> <<SubSeq(s, p, e1 - 1), SubSeq(s, e1 + 1, e2 - 1),
                           SubSeq(s, e2 + 1, e3 - 1), SubSeq(s, e3 + 1, Len(s))>>]
        ELSE [ok |-> FALSE, groups |-> <<>>]

\* header_rx.search(s): the match at the leftmost position that has one, or None
header_rx_search(s) ==
    IF \E p \in 1..(Len(s) + 1) : header_rx_at(s, p).ok
    THEN header_rx_at(s, CHOOSE p \in 1..(Len(s) + 1) :
                            /\ header_rx_at(s, p).ok
                            /\ \A q \in 1..(p - 1) : ~header_rx_at(s, q).ok)
    ELSE [ok |-> FALSE, groups |-> <<>>]

(***************************************************************************)
(* set_confidence                                                          *)
(***************************************************************************)
\* set_confidence with the comparison of the strong test turned round
set_confidence_flipped(score, thresholds) ==
    IF score <= thresholds[2] THEN "weak"
    ELSE IF 2 * score <= thresholds[2] + thresholds[1] THEN "strong"
    ELSE "medium"

\* set_confidence with the strong test made before the weak test
set_confidence_strong_first(score, thresholds) ==
    IF 2 * score >= thresholds[2] + thresholds[1] THEN "strong"
    ELSE IF score <= thresholds[2] THEN "weak"
    ELSE "medium"

\* thresholds = <<max_pwm, strict_threshold>>; med_str_thres is their mean
set_confidence(score, thresholds) ==
    IF score <= thresholds[2] THEN "weak"
    ELSE IF 2 * score >= thresholds[2] + thresholds[1] THEN "strong"
    ELSE "medium"

(***************************************************************************)
(* run_lightmotif: coordinates and region of one match                     *)
(***************************************************************************)
\* f"{start}:{end}" with start = int(start_) + i and end = start + len(pssm)
lm_location(start_, i, W) ==
    LET start == int(start_) + i
        end   == start + W
    IN  str(start) \o <<":">> \o str(end)

\* lm_region with the midpoint test made strict
lm_region_strict(region_, start_, end_, i) ==
    LET start == int(start_) + i
    IN  IF count(region_, "-") = 1
        THEN LET genes == split(region_, "-")
                 range_region2 == (int(end_) - int(start_)) + 2 * int(start_)
             IN  IF 2 * start < range_region2 THEN genes[1] ELSE genes[2]
        ELSE region_

\* "get proper region coordinates": range_region is a float, compared here
\* on the doubled values
lm_region(region_, start_, end_, i) ==
    LET start == int(start_) + i
    IN  IF count(region_, "-") = 1
        THEN LET genes == split(region_, "-")
                 range_region2 == (int(end_) - int(start_)) + 2 * int(start_)
             IN  IF 2 * start <= range_region2 THEN genes[1] ELSE genes[2]
        ELSE region_

\* "record results", one turn of the loop: the key and the row appended for
\* the hit (i, strand) of a record whose header groups are known
lm_match(groups, i, strand, score, seq, W, thresholds) ==
    [key |-> lm_region(groups[1], groups[2], groups[3], i),
     row |-> [loc    |-> lm_location(groups[2], i, W),
              strand |-> strand,
              score  |-> score,
              conf   |-> set_confidence(score, thresholds),
              seq    |-> seq]]

\* "parse sequence headers" followed by one turn of the loop; groups() of
\* the None that search returns on no match raises
lm_hit(record_id, i, strand, score, seq, W, thresholds) ==
    LET m == header_rx_search(record_id)
    IN  IF ~m.ok THEN Raise("AttributeError")
        ELSE Return(lm_match(m.groups, i, strand, score, seq, W, thresholds))

(***************************************************************************)
(* The result table (a dict, kept in key insertion order) and write_output *)
(***************************************************************************)
\* the index of key in the table (a dict in insertion order), 0 when absent
KeyIndex(table, key) ==
    IF \E k \in 1..Len(table) : table[k].key = key
    THEN CHOOSE k \in 1..Len(table) : table[k].key = key
    ELSE 0

\* results_dict[region].append(row), on a defaultdict(list)
dict_append(table, key, row) ==
    IF KeyIndex(table, key) = 0
    THEN Append(table, [key |-> key, val |-> <<row>>])
    ELSE [table EXCEPT ![KeyIndex(table, key)].val = Append(@, row)]

\* write_output: the rows after the header line, one per match, for each key
\* in the dict's order and each of its matches in list order
RECURSIVE write_output(_)
write_output(table) ==
    IF Len(table) = 0 THEN <<>>
    ELSE [k \in 1..Len(table[1].val) |->
             [region |-> table[1].key, match |-> table[1].val[k]]]
         \o write_output(Tail(table))

(***************************************************************************)
(* parse_moods                                                             *)
(***************************************************************************)
\* moods_region without the test on the number of hyphens
moods_region_any_hyphen(region, start_loc, stop_loc, full_start_loc) ==
    IF count(region, "-") > 0
    THEN LET genes == split(region, "-")
             range_region2 == (int(stop_loc) - int(start_loc)) + 2 * int(start_loc)
         IN  IF 2 * full_start_loc <= range_region2 THEN genes[1] ELSE genes[2]
    ELSE region

\* "if '-' in region: if not len(region.split('-')) > 2: ..."
moods_region(region, start_loc, stop_loc, full_start_loc) ==
    IF count(region, "-") > 0
    THEN IF ~(Len(split(region, "-")) > 2)
         THEN LET genes == split(region, "-")
                  range_region2 == (int(stop_loc) - int(start_loc)) + 2 * int(start_loc)
              IN  IF 2 * full_start_loc <= range_region2 THEN genes[1] ELSE genes[2]
         ELSE region
    ELSE region

\* one turn of the loop over the lines: the key and the row appended. int()
\* is applied to strings of digits only: a field that is not one raises.
moods_hit(line, thres) ==
    LET f == split(line, ",")
    IN  IF Len(f) # 7 THEN Raise("ValueError")
        ELSE
        LET ID     == f[1]
            loc    == f[3]
            strand == f[4]
            score  == f[5]
            seq    == f[6]
            parts  == split(ID, "~")
        IN  IF Len(parts) < 2 THEN Raise("IndexError")
            ELSE
            LET region == parts[1]
                locs   == split(parts[2], ":")
            IN  IF Len(locs) < 2 THEN Raise("IndexError")
                ELSE IF ~IsDigits(locs[1]) \/ ~IsDigits(loc) THEN Raise("ValueError")
                ELSE
                LET start_loc      == locs[1]
                    stop_loc       == locs[2]
                    full_start_loc == int(start_loc) + int(loc)
                    full_end_loc   == int(start_loc) + int(loc) + Len(seq)
                    full_loc       == str(full_start_loc) \o <<":">> \o str(full_end_loc)
                    conf           == set_confidence(float(score), thres)
                IN  IF count(region, "-") = 1 /\ ~IsDigits(stop_loc)
                    THEN Raise("ValueError")
                    ELSE Stored(moods_region(region, start_loc, stop_loc, full_start_loc),
                                [loc    |-> full_loc,
                                 strand |-> strand,
                                 score  |-> score,
                                 conf   |-> conf,
                                 seq    |-> seq])

\* the loop over the lines of the MOODS output; an exception ends it
RECURSIVE parse_moods_loop(_, _, _)
parse_moods_loop(lines, thres, out_dict) ==
    IF Len(lines) = 0 THEN Return(out_dict)
    ELSE LET h == moods_hit(Head(lines), thres)
         IN  IF ~h.ok THEN h
             ELSE parse_moods_loop(Tail(lines), thres,
                                   dict_append(out_dict, h.val.key, h.val.row))

\* parse_moods: the rows it writes with write_output
parse_moods(lines, thres) ==
    LET out_dict == parse_moods_loop(lines, thres, <<>>)
    IN  IF out_dict.ok THEN Return(write_output(out_dict.val)) ELSE out_dict

(***************************************************************************)
(* The run variables while a single function is studied on its own         *)
(***************************************************************************)
RunIdle ==
    /\ pc = "idle" /\ coding = FALSE /\ bg_dis = <<>> /\ pwm = <<>>
    /\ thresholds_pwm = <<>> /\ scoring_matrix = <<>> /\ pvalue_threshold = 0
    /\ lm = <<>> /\ fasta = <<>> /\ pos = 0 /\ record = <<>> /\ indices = <<>>
    /\ results_dict = <<>> /\ files = <<>> /\ error = "none" /\ nread = 0

(***************************************************************************)
(* Coordinate resolution of one hit, by run_lightmotif and by parse_moods  *)
(***************************************************************************)
MaxCoord == 2
MaxOffset == 2
MaxWidth == 2

geneA == <<"g", "e", "n", "e", "A">>
geneB == <<"g", "e", "n", "e", "B">>

\* the gene names joined by hyphens into the region field
GeneLists ==
    { <<geneA>>, <<geneA, geneB>>, <<(<<"a">>), (<<"b">>)>>,
      <<(<<>>), (<<"b">>)>>, <<(<<"a">>), (<<"b">>), (<<"c">>)>> }

Coords == (0..MaxCoord) \cup {100, 200}
Offsets == (0..MaxOffset) \cup {10, 50, 51, 60}
Widths == (1..MaxWidth) \cup {6}
Extras == { <<"x">>, <<"x", "~", "1", ":", "2", "~", "-">> }

\* the header region~start:end~extra of the record the hit lies in
HeaderOf(a) ==
    join(a.genes, "-") \o <<"~">> \o str(a.start) \o <<":">> \o str(a.end)
        \o <<"~">> \o a.extra

\* the MOODS output line of a hit at offset a.i of width a.W in that record
MoodsLineOf(a) ==
    join(<<HeaderOf(a), <<"m">>, str(a.i), <<"+">>, <<"2", ".", "5">>,
           [k \in 1..a.W |-> "A"], <<"\n">>>>, ",")

ResolveInit ==
    /\ args \in [genes : GeneLists, start : Coords, end : Coords,
                  extra : Extras, i : Offsets, W : Widths]
    /\ ret = [lm |-> NotCalled, moods |-> NotCalled]
    /\ RunIdle

ResolveLightmotif ==
    /\ ret.lm = NotCalled
    /\ ret' = [ret EXCEPT !.lm = lm_hit(HeaderOf(args), args.i, "+", 25,
                                        [k \in 1..args.W |-> "A"], args.W, <<40, 20>>)]
    /\ UNCHANGED <<args, runvars>>

ResolveMoods ==
    /\ ret.moods = NotCalled
    /\ ret' = [ret EXCEPT !.moods = parse_moods(<<MoodsLineOf(args)>>, <<40, 20>>)]
    /\ UNCHANGED <<args, runvars>>

ResolveNext == ResolveLightmotif \/ ResolveMoods

SpecResolve == ResolveInit /\ [][ResolveNext]_vars

\* what the two paths are expected to report for the hit
ExpectedLoc(a) == str(a.start + a.i) \o <<":">> \o str(a.start + a.i + a.W)

ExpectedGene(a) ==
    IF 2 * (a.start + a.i) <= 2 * a.start + (a.end - a.start)
    THEN a.genes[1] ELSE a.genes[2]

\* run_lightmotif stored the hit under key with location loc
Resolved(r, key, loc) ==
    r = NotCalled \/ (r.ok /\ r.val.key = key /\ r.val.row.loc = loc)

\* parse_moods wrote the one hit of its file under key with location loc
Written(r, key, loc) ==
    r = NotCalled \/
    (r.ok /\ Len(r.val) = 1 /\ r.val[1].region = key /\ r.val[1].match.loc = loc)

\* C1: for a region of exactly one hyphen (two genes), both run_lightmotif and
\* parse_moods report start+i : start+i+W and attribute the hit to the first
\* gene when start+i <= start + (end-start)/2 and to the second otherwise.
C1_GenePairResolution ==
    Len(args.genes) = 2 =>
        /\ Resolved(ret.lm, ExpectedGene(args), ExpectedLoc(args))
        /\ Written(ret.moods, ExpectedGene(args), ExpectedLoc(args))

\* geneA-geneB~100:200~x, W=6: offset 10 is reported 110:116 in geneA by both paths
C1_Witness ==
    /\ args.genes = <<geneA, geneB>> /\ args.start = 100 /\ args.end = 200
    /\ args.W = 6 /\ args.i = 10
    /\ ret.lm.ok /\ ret.moods.ok
    /\ ret.lm.val.key = geneA /\ ret.moods.val[1].region = geneA
    /\ ret.lm.val.row.loc = <<"1", "1", "0", ":", "1", "1", "6">>
    /\ ret.moods.val[1].match.loc = <<"1", "1", "0", ":", "1", "1", "6">>

\* C2: for a region of zero hyphens or of more than one, both paths store the
\* hit under the region field unchanged, whatever start, end and the offset.
C2_RegionUnchanged ==
    Len(args.genes) # 2 =>
        /\ Resolved(ret.lm, join(args.genes, "-"), ExpectedLoc(args))
        /\ Written(ret.moods, join(args.genes, "-"), ExpectedLoc(args))

\* a-b-c with the hit past the midpoint is stored under a-b-c by both paths
C2_Witness ==
    /\ Len(args.genes) = 3 /\ args.i > args.end
    /\ ret.lm.ok /\ ret.moods.ok
    /\ ret.lm.val.key = <<"a", "-", "b", "-", "c">>
    /\ ret.moods.val[1].region = <<"a", "-", "b", "-", "c">>

(***************************************************************************)
(* set_threshold                                                           *)
(***************************************************************************)
Bases == {"A", "C", "G", "T"}

\* the cutoff 1.9 of set_threshold, in tenths
Cutoff == 19

\* len(pssm): the motif width
Width(m) == Len(m["A"])

Max2(a, b) == IF a >= b THEN a ELSE b

\* pwm.max(): the maximum over the four bases at position j
ColMax(m, j) == Max2(Max2(m["A"][j], m["C"][j]), Max2(m["G"][j], m["T"][j]))

\* sum(pwm.max(numeric_only=True)) over positions 1..j
RECURSIVE SumColMax(_, _)
SumColMax(m, j) == IF j = 0 THEN 0 ELSE SumColMax(m, j - 1) + ColMax(m, j)

\* the loop of set_threshold over positions j..Width(m). strict_threshold
\* starts as the int 0 and becomes a one-element array at the first
\* addition: acc.array tells which, acc.v is its value.
RECURSIVE strict_loop(_, _, _)
strict_loop(m, j, acc) ==
    IF j > Width(m) THEN acc
    ELSE IF ColMax(m, j) >= Cutoff
         THEN strict_loop(m, j + 1, [array |-> TRUE, v |-> acc.v + ColMax(m, j)])
         ELSE strict_loop(m, j + 1, acc)

\* returns [max_pwm, strict_threshold[0]]; subscripting the int 0 raises
set_threshold(m) ==
    LET max_pwm          == SumColMax(m, Width(m))
        strict_threshold == strict_loop(m, 1, [array |-> FALSE, v |-> 0])
    IN  IF strict_threshold.array
        THEN Return(<<max_pwm, strict_threshold.v>>)
        ELSE Raise("TypeError")

(***************************************************************************)
(* Tier boundaries and confidence tiers: set_threshold and set_confidence   *)
(***************************************************************************)
MaxScore == 3
MaxTierWidth == 2

\* a matrix column: the scores of A, C, G, T at one position. The highest
\* score of a column of log-odds against a uniform background is >= 0.
Columns ==
    { [A |-> 20, C |-> -10, G |-> -10, T |-> -10],
      [A |-> -10, C |-> 19, G |-> 5, T |-> -10],
      [A |-> 5, C |-> -10, G |-> 18, T |-> 5],
      [A |-> -3, C |-> -3, G |-> -3, T |-> 5] }

\* the matrix whose positions are the given columns
PwmOf(cols) == [b \in Bases |-> [j \in 1..Len(cols) |-> cols[j][b]]]

TierPwms ==
    { PwmOf(cols) : cols \in UNION { [1..w -> Columns] : w \in 1..MaxTierWidth } }

SmallScores == (0 - MaxScore)..MaxScore
TierScores == SmallScores \cup {19, 20, 24, 25, 29, 30, 38, 39, 40}

TiersInit ==
    /\ args \in [s1 : TierScores, s2 : TierScores]
    /\ ret = [pwm |-> <<>>, thresholds |-> NotCalled, conf |-> <<>>]
    /\ RunIdle

\* thresholds_pwm = set_threshold(pwm)
SetThreshold ==
    /\ ret.thresholds = NotCalled
    /\ \E m \in TierPwms :
          ret' = [ret EXCEPT !.pwm = m, !.thresholds = set_threshold(m)]
    /\ UNCHANGED <<args, runvars>>

\* a threshold pair handed to set_confidence by a caller
GivenThresholds ==
    /\ ret.thresholds = NotCalled
    /\ \E mx \in SmallScores, st \in SmallScores :
          ret' = [ret EXCEPT !.thresholds = Return(<<mx, st>>)]
    /\ UNCHANGED <<args, runvars>>

\* set_confidence of the two scores under the thresholds
SetConfidence ==
    /\ ret.thresholds.ok
    /\ ret.conf = <<>>
    /\ ret' = [ret EXCEPT !.conf = <<set_confidence(args.s1, ret.thresholds.val),
                                      set_confidence(args.s2, ret.thresholds.val)>>]
    /\ UNCHANGED <<args, runvars>>

TiersNext == SetThreshold \/ GivenThresholds \/ SetConfidence

SpecTiers == TiersInit /\ [][TiersNext]_vars

Rank(tier) == CASE tier = "weak" -> 0 [] tier = "medium" -> 1 [] tier = "strong" -> 2

\* C3: under any fixed threshold pair set_confidence returns one of weak,
\* medium, strong for every score, and a higher score never gets a lower tier.
C3_TierMonotone ==
    ret.conf # <<>> =>
        /\ ret.conf[1] \in {"weak", "medium", "strong"}
        /\ ret.conf[2] \in {"weak", "medium", "strong"}
        /\ (args.s1 <= args.s2 => Rank(ret.conf[1]) <= Rank(ret.conf[2]))

\* a lower score classified medium and a higher one strong, under one pair
C3_Witness ==
    /\ ret.conf = <<"medium", "strong">>
    /\ args.s1 < args.s2

\* what tierBoundaries is specified to return for matrix m
RECURSIVE SumStrictMax(_, _)
SumStrictMax(m, j) ==
    IF j = 0 THEN 0
    ELSE SumStrictMax(m, j - 1) + (IF ColMax(m, j) >= Cutoff THEN ColMax(m, j) ELSE 0)

\* C4: set_threshold returns maxScore = the sum of the per-position maxima and
\* strictBoundary = the sum of those maxima that are >= 1.9; a matrix with no
\* such position yields strictBoundary = 0 with its maxScore, not a failure.
C4_TierBoundaries ==
    ret.pwm # <<>> =>
        /\ ret.thresholds.ok
        /\ ret.thresholds.val = <<SumColMax(ret.pwm, Width(ret.pwm)),
                                  SumStrictMax(ret.pwm, Width(ret.pwm))>>

\* C4, on the matrices that have a position whose maximum reaches 1.9
C4_WhenSomePositionReachesCutoff ==
    (ret.pwm # <<>> /\ \E j \in 1..Width(ret.pwm) : ColMax(ret.pwm, j) >= Cutoff) =>
        /\ ret.thresholds.ok
        /\ ret.thresholds.val = <<SumColMax(ret.pwm, Width(ret.pwm)),
                                  SumStrictMax(ret.pwm, Width(ret.pwm))>>

\* C10: the weak test comes first. With strict < max a hit scoring max is
\* strong; with strict = max (every per-position maximum >= 1.9) a hit scoring
\* max is weak; whenever strict >= max no score is medium.
C10_WeakPrecedence ==
    /\ (ret.pwm # <<>> /\ ret.thresholds.ok
            /\ \A j \in 1..Width(ret.pwm) : ColMax(ret.pwm, j) >= Cutoff)
        => ret.thresholds.val[2] = ret.thresholds.val[1]
    /\ ret.conf # <<>> =>
        LET max_pwm == ret.thresholds.val[1]
            strict  == ret.thresholds.val[2]
        IN  /\ (strict < max_pwm /\ args.s1 = max_pwm) => ret.conf[1] = "strong"
            /\ (strict = max_pwm /\ args.s1 = max_pwm) => ret.conf[1] = "weak"
            /\ strict >= max_pwm => "medium" \notin {ret.conf[1], ret.conf[2]}

\* a matrix whose positions all reach 1.9: its best possible hit is weak
C10_Witness ==
    /\ ret.pwm # <<>>
    /\ \A j \in 1..Width(ret.pwm) : ColMax(ret.pwm, j) >= Cutoff
    /\ ret.conf # <<>>
    /\ args.s1 = ret.thresholds.val[1]
    /\ ret.conf[1] = "weak"

(***************************************************************************)
(* get_sequence_gc_content and get_bg_distribution                         *)
(* A float is the exact fraction <<numerator, denominator>>.               *)
(***************************************************************************)
\* counter[char] of Counter(sequence)
RECURSIVE Counter(_, _)
Counter(sequence, char) ==
    IF Len(sequence) = 0 THEN 0
    ELSE (IF Head(sequence) = char THEN 1 ELSE 0) + Counter(Tail(sequence), char)

\* get_sequence_gc_content counting G alone
get_sequence_gc_content_g_only(sequence) ==
    IF Len(sequence) = 0 THEN Raise("ZeroDivisionError")
    ELSE Return(<<Counter(sequence, "G"), Len(sequence)>>)

\* sum(counter[char] for char in "GC") / len(sequence)
get_sequence_gc_content(sequence) ==
    IF Len(sequence) = 0 THEN Raise("ZeroDivisionError")
    ELSE Return(<<Counter(sequence, "G") + Counter(sequence, "C"), Len(sequence)>>)

\* the four numbers of the returned string, in the order they are joined
get_bg_distribution(sequence) ==
    LET gc == get_sequence_gc_content(sequence)
    IN  IF ~gc.ok THEN gc
        ELSE LET gc_percentage == <<gc.val[1], 2 * gc.val[2]>>
                 at_percentage == <<gc_percentage[2] - 2 * gc_percentage[1],
                                    2 * gc_percentage[2]>>
             IN  Return(<<at_percentage, gc_percentage, gc_percentage, at_percentage>>)

MaxRefLen == 3

RefSymbols == {"A", "C", "G", "T", "N"}

RefSequences ==
    UNION { [1..n -> RefSymbols] : n \in 0..MaxRefLen } \cup { <<"G", "C", "G", "C">> }

BgInit ==
    /\ args \in [sequence : RefSequences]
    /\ ret = NotCalled
    /\ RunIdle

GetBgDistribution ==
    /\ ret = NotCalled
    /\ ret' = get_bg_distribution(args.sequence)
    /\ UNCHANGED <<args, runvars>>

BgNext == GetBgDistribution

SpecBg == BgInit /\ [][BgNext]_vars

RatEq(p, q) == p[1] * q[2] = q[1] * p[2]

RatSum4(t) ==
    <<  t[1][1] * t[2][2] * t[3][2] * t[4][2] + t[2][1] * t[1][2] * t[3][2] * t[4][2]
      + t[3][1] * t[1][2] * t[2][2] * t[4][2] + t[4][1] * t[1][2] * t[2][2] * t[3][2],
        t[1][2] * t[2][2] * t[3][2] * t[4][2] >>

\* count(G) + count(C) of the reference sequence
GcCount(seq) == Cardinality({k \in 1..Len(seq) : seq[k] \in {"G", "C"}})

C8_WitnessEmpty == args.sequence = <<>> /\ ret # NotCalled /\ ~ret.ok

(***************************************************************************)
(* The lightmotif and Biopython calls of run_lightmotif. Their code is not *)
(* part of detection_pwm.py: they are modelled from the specification      *)
(* (StrandScanner, ScoringMatrix).                                          *)
(***************************************************************************)
Complement(b) ==
    CASE b = "A" -> "T" [] b = "T" -> "A" [] b = "C" -> "G" [] b = "G" -> "C"

\* pssm.reverse_complement(): positions reversed, A<->T and C<->G swapped
pssm_reverse_complement(m) ==
    [b \in Bases |-> [j \in 1..Width(m) |-> m[Complement(b)][Width(m) + 1 - j]]]

\* Seq.reverse_complement()
seq_reverse_complement(seq) ==
    [k \in 1..Len(seq) |-> Complement(seq[Len(seq) + 1 - k])]

\* the score of the window at offset i: the sum over positions 1..j of the
\* score of the observed base
RECURSIVE WindowScore(_, _, _, _)
WindowScore(m, seq, i, j) ==
    IF j = 0 THEN 0 ELSE WindowScore(m, seq, i, j - 1) + m[seq[i + j]][j]

\* calculate without the last window
calculate_short(m, seq) ==
    IF Len(seq) <= Width(m) THEN <<>>
    ELSE [k \in 1..(Len(seq) - Width(m)) |-> WindowScore(m, seq, k - 1, Width(m))]

\* pssm.calculate(striped_sequence): one score per offset where a full
\* window fits; scores[i + 1] is the score at offset i
calculate(m, seq) ==
    IF Len(seq) < Width(m) THEN <<>>
    ELSE [k \in 1..(Len(seq) - Width(m) + 1) |-> WindowScore(m, seq, k - 1, Width(m))]

\* scores.threshold(t): the offsets from..Len(scores)-1 whose score is >= t
RECURSIVE threshold_from(_, _, _)
threshold_from(scores, t, from) ==
    IF from >= Len(scores) THEN <<>>
    ELSE (IF scores[from + 1] >= t THEN <<from>> ELSE <<>>)
             \o threshold_from(scores, t, from + 1)

threshold(scores, t) == threshold_from(scores, t, 0)

(***************************************************************************)
(* The scan of one strand                                                  *)
(***************************************************************************)
MaxSeqLen == 3

ScanPwms ==
    { PwmOf(<<[A |-> 20, C |-> -10, G |-> -10, T |-> -10],
              [A |-> -10, C |-> 19, G |-> 5, T |-> -10]>>),
      PwmOf(<<[A |-> 5, C |-> -10, G |-> 18, T |-> 5]>>),
      PwmOf(<<[A |-> 20, C |-> -10, G |-> -10, T |-> -10],
              [A |-> -10, C |-> 19, G |-> 5, T |-> -10],
              [A |-> 5, C |-> -10, G |-> 18, T |-> 5],
              [A |-> -3, C |-> -3, G |-> -3, T |-> 5]>>) }

ScanSequences ==
    UNION { [1..n -> Bases] : n \in 0..MaxSeqLen }
        \cup { <<"A", "C", "G", "T", "A", "C", "G", "T">> }

ScanMinScores == {-100, 0, 19, 39, 100}

ScanInit ==
    /\ args \in [pssm : ScanPwms, sequence : ScanSequences, minScore : ScanMinScores]
    /\ ret = [fwd |-> NotCalled, bwd |-> NotCalled]
    /\ RunIdle

\* fwd_scores = pssm.calculate(...); fwd_scores.threshold(pvalue_threshold)
ScanForward ==
    /\ ret.fwd = NotCalled
    /\ ret' = [ret EXCEPT !.fwd =
                  Return(threshold(calculate(args.pssm, args.sequence), args.minScore))]
    /\ UNCHANGED <<args, runvars>>

\* bwd_scores = pssm_rc.calculate(...); bwd_scores.threshold(pvalue_threshold)
ScanBackward ==
    /\ ret.bwd = NotCalled
    /\ ret' = [ret EXCEPT !.bwd =
                  Return(threshold(calculate(pssm_reverse_complement(args.pssm),
                                             args.sequence), args.minScore))]
    /\ UNCHANGED <<args, runvars>>

ScanNext == ScanForward \/ ScanBackward

SpecScan == ScanInit /\ [][ScanNext]_vars

\* the sum of the scores of the bases seq[i+1..i+W] at positions 1..W
ScoreOfWindow(m, seq, i) ==
    LET W == Width(m)
        col[j \in 0..W] == IF j = W THEN 0 ELSE m[seq[i + j + 1]][j + 1] + col[j + 1]
    IN  col[0]

Min2(a, b) == IF a <= b THEN a ELSE b

ColMin(m, j) == Min2(Min2(m["A"][j], m["C"][j]), Min2(m["G"][j], m["T"][j]))

RECURSIVE SumColMin(_, _)
SumColMin(m, j) == IF j = 0 THEN 0 ELSE SumColMin(m, j - 1) + ColMin(m, j)

\* the scan result r of matrix m over seq lists each passing offset once
ScanYields(r, m, seq, minScore) ==
    r = NotCalled \/
    LET L == Len(seq)
        W == Width(m)
        offsets == {r.val[k] : k \in 1..Len(r.val)}
    IN  /\ offsets = {i \in 0..(L - W) : ScoreOfWindow(m, seq, i) >= minScore}
        /\ Cardinality(offsets) = Len(r.val)
        /\ (minScore < SumColMin(m, W) /\ L >= W) => Len(r.val) = L - W + 1
        /\ minScore > SumColMax(m, W) => r.val = <<>>

\* C5: the scan of one strand yields exactly the offsets in 0..L-W whose
\* window score is >= minScore, each once: all L-W+1 of them when minScore is
\* below every possible score, none when it is above the matrix's max score.
C5_ScanOffsets ==
    /\ ScanYields(ret.fwd, args.pssm, args.sequence, args.minScore)
    /\ ScanYields(ret.bwd, pssm_reverse_complement(args.pssm), args.sequence,
                  args.minScore)

\* ACGTACGT under a width-4 matrix: offsets 0..4 with a minScore below every
\* score
C5_Witness ==
    /\ args.sequence = <<"A", "C", "G", "T", "A", "C", "G", "T">>
    /\ Width(args.pssm) = 4
    /\ args.minScore = -100
    /\ ret.fwd.ok /\ ret.fwd.val = <<0, 1, 2, 3, 4>>
    /\ ret.bwd.ok /\ ret.bwd.val = <<0, 1, 2, 3, 4>>

\* the same scan with a minScore above the max score yields nothing
C5_WitnessNone ==
    /\ args.sequence = <<"A", "C", "G", "T", "A", "C", "G", "T">>
    /\ Width(args.pssm) = 4
    /\ args.minScore = 100
    /\ ret.fwd.ok /\ ret.fwd.val = <<>>

(***************************************************************************)
(* run_lightmotif: the record loop                                         *)
(***************************************************************************)
\* chain_indices with the reverse strand first
chain_indices_bwd_first(fwd, bwd) ==
    [k \in 1..Len(bwd) |-> [i |-> bwd[k], strand |-> "-"]]
        \o [k \in 1..Len(fwd) |-> [i |-> fwd[k], strand |-> "+"]]

\* itertools.chain(zip(fwd..., repeat("+")), zip(bwd..., repeat("-")))
chain_indices(fwd, bwd) ==
    [k \in 1..Len(fwd) |-> [i |-> fwd[k], strand |-> "+"]]
        \o [k \in 1..Len(bwd) |-> [i |-> bwd[k], strand |-> "-"]]

\* the (i, strand) pairs of one record under the call's matrix and threshold
record_indices(call, seq) ==
    chain_indices(threshold(calculate(call.pssm, seq), call.pvalue_threshold),
                  threshold(calculate(call.pssm_rc, seq), call.pvalue_threshold))

\* the key and row recorded for the hit (i, strand) of the current record
record_match(call, rec, hit) ==
    LET W     == Width(call.pssm)
        score == IF hit.strand = "+"
                 THEN calculate(call.pssm, rec.seq)[hit.i + 1]
                 ELSE calculate(call.pssm_rc, rec.seq)[hit.i + 1]
        site  == SubSeq(rec.seq, hit.i + 1, hit.i + W)
        seq   == IF hit.strand = "-" THEN seq_reverse_complement(site) ELSE site
    IN  lm_match(rec.groups, hit.i, hit.strand, score, seq, W, call.thresholds_pwm)

(***************************************************************************)
(* run_pwm_detection                                                       *)
(***************************************************************************)
MaxRecords == 3

MainRefSequences == { <<>>, <<"G", "C", "G", "C">>, <<"A", "C", "G", "T">> }

\* motif AC with both maxima >= 1.9; motif AG with one; none reaching 1.9
MainPwms ==
    { PwmOf(<<[A |-> 20, C |-> -10, G |-> -10, T |-> -10],
              [A |-> -10, C |-> 19, G |-> 5, T |-> -10]>>),
      PwmOf(<<[A |-> 20, C |-> -10, G |-> -10, T |-> -10],
              [A |-> 5, C |-> -10, G |-> 18, T |-> 5]>>),
      PwmOf(<<[A |-> 5, C |-> -10, G |-> 18, T |-> 5],
              [A |-> -3, C |-> -3, G |-> -3, T |-> 5]>>) }

MainMinScores == {9, 30}

\* the records a FASTA file may hold
MainRecords ==
    { [id |-> <<"a", "-", "b", "~", "0", ":", "5", "~", "x">>,
       seq |-> <<"A", "C", "A", "G", "T">>],
      [id |-> <<"b", "~", "4", ":", "8", "~", "x">>,
       seq |-> <<"A", "C", "G", "T">>],
      [id |-> <<"b", "a", "d">>, seq |-> <<"A", "C">>],
      [id |-> <<"e">>, seq |-> <<>>] }

Batches(n) == UNION { [1..k -> MainRecords] : k \in 0..n }

Init ==
    /\ args = <<>> /\ ret = <<>>
    /\ pc = "get_bg_distribution"
    /\ coding \in BOOLEAN
    /\ bg_dis = <<>> /\ pwm = <<>> /\ thresholds_pwm = <<>>
    /\ scoring_matrix = <<>> /\ pvalue_threshold = 0
    /\ lm = <<>> /\ fasta = <<>> /\ pos = 0 /\ record = <<>> /\ indices = <<>>
    /\ results_dict = <<>> /\ files = <<>> /\ error = "none" /\ nread = 0

\* bg_dis = get_bg_distribution(gbk_regions), which raises on an empty sequence
GetBg ==
    /\ pc = "get_bg_distribution"
    /\ \E gbk_regions \in MainRefSequences :
          LET r == get_bg_distribution(gbk_regions)
          IN  IF r.ok
              THEN bg_dis' = r.val /\ pc' = "create_pwm" /\ error' = error
              ELSE bg_dis' = bg_dis /\ pc' = "aborted" /\ error' = r.err
    /\ UNCHANGED <<args, ret, coding, pwm, thresholds_pwm, scoring_matrix,
                   pvalue_threshold, lm, fasta, pos, record, indices,
                   results_dict, files, nread>>

\* pwm_file, pwm = create_pwm(...): the matrix is built and written to its file
CreatePwm ==
    /\ pc = "create_pwm"
    /\ \E m \in MainPwms :
          /\ pwm' = m
          /\ files' = Append(files, [kind |-> "PWM", content |-> <<>>])
    /\ pc' = "set_threshold"
    /\ UNCHANGED <<args, ret, coding, bg_dis, thresholds_pwm, scoring_matrix,
                   pvalue_threshold, lm, fasta, pos, record, indices,
                   results_dict, error, nread>>

\* create_pwm raises (seqlogo rejects the frequency matrix)
CreatePwmFails ==
    /\ pc = "create_pwm"
    /\ pc' = "aborted"
    /\ error' = "ValueError"
    /\ UNCHANGED <<args, ret, coding, bg_dis, pwm, thresholds_pwm, scoring_matrix,
                   pvalue_threshold, lm, fasta, pos, record, indices,
                   results_dict, files, nread>>

\* thresholds_pwm = set_threshold(pwm)
SetThresholdPwm ==
    /\ pc = "set_threshold"
    /\ LET r == set_threshold(pwm)
       IN  IF r.ok
           THEN thresholds_pwm' = r.val /\ pc' = "scoring_matrix" /\ error' = error
           ELSE thresholds_pwm' = thresholds_pwm /\ pc' = "aborted" /\ error' = r.err
    /\ UNCHANGED <<args, ret, coding, bg_dis, pwm, scoring_matrix,
                   pvalue_threshold, lm, fasta, pos, record, indices,
                   results_dict, files, nread>>

\* scoring_matrix = lightmotif.ScoringMatrix("ACGT", dict(A=..., T=..., G=..., C=...))
BuildScoringMatrix ==
    /\ pc = "scoring_matrix"
    /\ scoring_matrix' = [b \in Bases |-> pwm[b]]
    /\ pc' = "score"
    /\ UNCHANGED <<args, ret, coding, bg_dis, pwm, thresholds_pwm,
                   pvalue_threshold, lm, fasta, pos, record, indices,
                   results_dict, files, error, nread>>

\* lightmotif.ScoringMatrix(...) raises
ScoringMatrixFails ==
    /\ pc = "scoring_matrix"
    /\ pc' = "aborted"
    /\ error' = "ValueError"
    /\ UNCHANGED <<args, ret, coding, bg_dis, pwm, thresholds_pwm, scoring_matrix,
                   pvalue_threshold, lm, fasta, pos, record, indices,
                   results_dict, files, nread>>

\* scoring_matrix.score(pvalue) raises
ScorePvalueFails ==
    /\ pc = "score"
    /\ pc' = "aborted"
    /\ error' = "ValueError"
    /\ UNCHANGED <<args, ret, coding, bg_dis, pwm, thresholds_pwm, scoring_matrix,
                   pvalue_threshold, lm, fasta, pos, record, indices,
                   results_dict, files, nread>>

\* the pass run first
first_pass(flag) == IF flag THEN "call_co" ELSE "call_reg"

\* pvalue_threshold = scoring_matrix.score(pvalue); then "if coding:"
ScorePvalue ==
    /\ pc = "score"
    /\ \E t \in MainMinScores : pvalue_threshold' = t
    /\ pc' = first_pass(coding)
    /\ UNCHANGED <<args, ret, coding, bg_dis, pwm, thresholds_pwm, scoring_matrix,
                   lm, fasta, pos, record, indices, results_dict, files, error,
                   nread>>

\* lightmotif_call with the tier boundaries derived again, from the
\* reverse-complement matrix's first position, for the regulatory pass
lightmotif_call_rederived(reg_type) ==
    [reg_type         |-> reg_type,
     pssm             |-> scoring_matrix,
     pssm_rc          |-> pssm_reverse_complement(scoring_matrix),
     pvalue_threshold |-> pvalue_threshold,
     thresholds_pwm   |-> IF reg_type = "reg"
                          THEN <<thresholds_pwm[1], ColMax(scoring_matrix, 1)>>
                          ELSE thresholds_pwm]

\* the arguments run_pwm_detection hands to run_lightmotif for a pass
lightmotif_call(reg_type) ==
    [reg_type         |-> reg_type,
     pssm             |-> scoring_matrix,
     pssm_rc          |-> pssm_reverse_complement(scoring_matrix),
     pvalue_threshold |-> pvalue_threshold,
     thresholds_pwm   |-> thresholds_pwm]

\* results = run_lightmotif(co_fasta | reg_fasta, scoring_matrix,
\* pvalue_threshold, thresholds_pwm), up to the first turn of its loop
CallLightmotif ==
    /\ pc \in {"call_co", "call_reg"}
    /\ lm' = lightmotif_call(IF pc = "call_co" THEN "co" ELSE "reg")
    /\ \E batch \in Batches(MaxRecords - nread) :
          fasta' = batch /\ nread' = nread + Len(batch)
    /\ pos' = 0 /\ record' = <<>> /\ indices' = <<>> /\ results_dict' = <<>>
    /\ pc' = "lm_loop"
    /\ UNCHANGED <<args, ret, coding, bg_dis, pwm, thresholds_pwm, scoring_matrix,
                   pvalue_threshold, files, error>>

\* "if not record.seq: continue"
LmSkipEmpty ==
    /\ pc = "lm_loop" /\ indices = <<>> /\ pos < Len(fasta)
    /\ fasta[pos + 1].seq = <<>>
    /\ pos' = pos + 1
    /\ UNCHANGED <<args, ret, pc, coding, bg_dis, pwm, thresholds_pwm,
                   scoring_matrix, pvalue_threshold, lm, fasta, record, indices,
                   results_dict, files, error, nread>>

\* a record is scanned on both strands and its header parsed
LmScanRecord ==
    /\ pc = "lm_loop" /\ indices = <<>> /\ pos < Len(fasta)
    /\ fasta[pos + 1].seq # <<>>
    /\ header_rx_search(fasta[pos + 1].id).ok
    /\ record' = [id |-> fasta[pos + 1].id, seq |-> fasta[pos + 1].seq,
                  groups |-> header_rx_search(fasta[pos + 1].id).groups]
    /\ indices' = record_indices(lm, fasta[pos + 1].seq)
    /\ pos' = pos + 1
    /\ UNCHANGED <<args, ret, pc, coding, bg_dis, pwm, thresholds_pwm,
                   scoring_matrix, pvalue_threshold, lm, fasta, results_dict,
                   files, error, nread>>

\* header_rx.search(record.id) is None: .groups() raises, and the exception
\* leaves run_lightmotif and run_pwm_detection
LmHeaderError ==
    /\ pc = "lm_loop" /\ indices = <<>> /\ pos < Len(fasta)
    /\ fasta[pos + 1].seq # <<>>
    /\ ~header_rx_search(fasta[pos + 1].id).ok
    /\ pc' = "aborted"
    /\ error' = "AttributeError"
    /\ UNCHANGED <<args, ret, coding, bg_dis, pwm, thresholds_pwm,
                   scoring_matrix, pvalue_threshold, lm, fasta, pos, record,
                   indices, results_dict, files, nread>>

\* one turn of "for i, strand in indices"
LmRecordMatch ==
    /\ pc = "lm_loop" /\ indices # <<>>
    /\ LET m == record_match(lm, record, Head(indices))
       IN  results_dict' = dict_append(results_dict, m.key, m.row)
    /\ indices' = Tail(indices)
    /\ UNCHANGED <<args, ret, pc, coding, bg_dis, pwm, thresholds_pwm,
                   scoring_matrix, pvalue_threshold, lm, fasta, pos, record,
                   files, error, nread>>

\* "return results_dict" at the end of the file
LmReturn ==
    /\ pc = "lm_loop" /\ indices = <<>> /\ pos = Len(fasta)
    /\ pc' = "write_output"
    /\ UNCHANGED <<args, ret, coding, bg_dis, pwm, thresholds_pwm,
                   scoring_matrix, pvalue_threshold, lm, fasta, pos, record,
                   indices, results_dict, files, error, nread>>

\* write_output(results, reg_name, gb_name, "co" | "reg", outdir); the
\* regulatory pass follows the coding pass, and the run ends after it
WriteOutput ==
    /\ pc = "write_output"
    /\ files' = Append(files, [kind |-> lm.reg_type,
                               content |-> write_output(results_dict)])
    /\ pc' = IF lm.reg_type = "co" THEN "call_reg" ELSE "done"
    /\ UNCHANGED <<args, ret, coding, bg_dis, pwm, thresholds_pwm,
                   scoring_matrix, pvalue_threshold, lm, fasta, pos, record,
                   indices, results_dict, error, nread>>

Next ==
    \/ GetBg \/ CreatePwm \/ CreatePwmFails \/ SetThresholdPwm
    \/ BuildScoringMatrix \/ ScoringMatrixFails \/ ScorePvalue \/ ScorePvalueFails
    \/ CallLightmotif
    \/ LmSkipEmpty \/ LmScanRecord \/ LmHeaderError \/ LmRecordMatch
    \/ LmReturn \/ WriteOutput

Spec == Init /\ [][Next]_vars

(***************************************************************************)
(* Properties of the record loop and of the run                            *)
(***************************************************************************)
\* the matches of one well-formed record under a call: those of the forward
\* strand, then those of the reverse strand
HitsOf(call, rec) ==
    LET r   == [id |-> rec.id, seq |-> rec.seq,
                groups |-> header_rx_search(rec.id).groups]
        fwd == threshold(calculate(call.pssm, rec.seq), call.pvalue_threshold)
        bwd == threshold(calculate(call.pssm_rc, rec.seq), call.pvalue_threshold)
    IN  [k \in 1..Len(fwd) |-> record_match(call, r, [i |-> fwd[k], strand |-> "+"])]
            \o [k \in 1..Len(bwd) |-> record_match(call, r, [i |-> bwd[k], strand |-> "-"])]

InTable(table, m) ==
    \E e \in 1..Len(table) :
        table[e].key = m.key /\ \E j \in 1..Len(table[e].val) : table[e].val[j] = m.row

\* C6: a record whose header is malformed is skipped and reported alone: the
\* scan goes on, and the table run_lightmotif returns holds every match of
\* every well-formed record of the batch, before and after the malformed one.
C6_SkipAndReport ==
    /\ error # "AttributeError"
    /\ pc = "write_output" =>
          \A k \in 1..Len(fasta) :
              (fasta[k].seq # <<>> /\ header_rx_search(fasta[k].id).ok) =>
                  \A j \in 1..Len(HitsOf(lm, fasta[k])) :
                      InTable(results_dict, HitsOf(lm, fasta[k])[j])

\* the matches of the first n records of the batch, in arrival order
RECURSIVE ArrivedUpTo(_, _, _)
ArrivedUpTo(call, batch, n) ==
    IF n = 0 THEN <<>>
    ELSE ArrivedUpTo(call, batch, n - 1)
             \o (IF batch[n].seq = <<>> THEN <<>> ELSE HitsOf(call, batch[n]))

\* the matches recorded so far by the running call
Arrived ==
    LET all == ArrivedUpTo(lm, fasta, pos)
    IN  SubSeq(all, 1, Len(all) - Len(indices))

\* the keys of a sequence of matches in order of first occurrence
RECURSIVE FirstKeys(_)
FirstKeys(ms) ==
    IF Len(ms) = 0 THEN <<>>
    ELSE LET init == FirstKeys(SubSeq(ms, 1, Len(ms) - 1))
             key  == ms[Len(ms)].key
         IN  IF \E k \in 1..Len(init) : init[k] = key THEN init ELSE Append(init, key)

\* the rows of the matches stored under key, in arrival order
RECURSIVE RowsOf(_, _)
RowsOf(ms, key) ==
    IF Len(ms) = 0 THEN <<>>
    ELSE (IF Head(ms).key = key THEN <<Head(ms).row>> ELSE <<>>) \o RowsOf(Tail(ms), key)

\* the output rows of a sequence of matches: regions in first-insertion
\* order, each region's matches in arrival order
RECURSIVE RowsByKeys(_, _)
RowsByKeys(ms, keys) ==
    IF Len(keys) = 0 THEN <<>>
    ELSE LET rows == RowsOf(ms, Head(keys))
         IN  [k \in 1..Len(rows) |-> [region |-> Head(keys), match |-> rows[k]]]
                 \o RowsByKeys(ms, Tail(keys))

IsPrefix(a, b) == Len(a) <= Len(b) /\ SubSeq(b, 1, Len(a)) = a

C7_TableInArrivalOrder ==
    /\ pc \in {"lm_loop", "write_output"} =>
          /\ Len(results_dict) = Len(FirstKeys(Arrived))
          /\ \A e \in 1..Len(results_dict) :
                /\ results_dict[e].key = FirstKeys(Arrived)[e]
                /\ results_dict[e].val = RowsOf(Arrived, results_dict[e].key)
    /\ (pc \in {"call_reg", "done"} /\ lm # <<>>) =>
          /\ files[Len(files)].kind = lm.reg_type
          /\ files[Len(files)].content = RowsByKeys(Arrived, FirstKeys(Arrived))

C7_AppendOnlyStep ==
    (pc = "lm_loop" /\ lm' = lm) =>
        /\ Len(results_dict') >= Len(results_dict)
        /\ \A e \in 1..Len(results_dict) :
              /\ results_dict'[e].key = results_dict[e].key
              /\ IsPrefix(results_dict[e].val, results_dict'[e].val)

\* C7: the result table is append-only and order-preserving: each region's
\* list holds its matches in arrival order (records in input order, within a
\* record forward-strand matches before reverse-strand ones), no step
\* modifies, removes or reorders an earlier entry, and the output lists the
\* regions in first-insertion order and each region's matches in list order.
C7_AppendOnlyOrdered == []C7_TableInArrivalOrder /\ [][C7_AppendOnlyStep]_vars

\* region b holds 4:6, 6:8 and then 3:5, and is written out in that order
C7_Witness ==
    /\ pc = "done"
    /\ \E e \in 1..Len(results_dict) :
          /\ results_dict[e].key = <<"b">>
          /\ Len(results_dict[e].val) = 3
          /\ results_dict[e].val[1].loc = <<"4", ":", "6">>
          /\ results_dict[e].val[1].strand = "+"
          /\ results_dict[e].val[2].loc = <<"6", ":", "8">>
          /\ results_dict[e].val[2].strand = "-"
          /\ results_dict[e].val[3].loc = <<"3", ":", "5">>
    /\ Len(files[Len(files)].content) = 4
    /\ files[Len(files)].content[1].match.loc = <<"4", ":", "6">>
    /\ files[Len(files)].content[3].match.loc = <<"3", ":", "5">>
    /\ files[Len(files)].content[4].region = <<"a">>

ResultFiles == {k \in 1..Len(files) : files[k].kind \in {"co", "reg"}}

C9_RunOrder ==
    /\ (pc = "aborted" /\ error \in {"ZeroDivisionError", "ValueError", "TypeError"}) =>
          /\ nread = 0 /\ lm = <<>> /\ results_dict = <<>> /\ ResultFiles = {}
    /\ (lm # <<>> \/ ResultFiles # {}) =>
          /\ bg_dis # <<>> /\ pwm # <<>> /\ thresholds_pwm # <<>>
          /\ scoring_matrix # <<>> /\ pvalue_threshold \in MainMinScores
    /\ lm # <<>> =>
          /\ lm.pssm = scoring_matrix
          /\ lm.pvalue_threshold = pvalue_threshold
          /\ lm.thresholds_pwm = thresholds_pwm
          /\ lm.reg_type = "co" => coding
          /\ (lm.reg_type = "reg" /\ coding) =>
                \E k \in ResultFiles : files[k].kind = "co"
    /\ \A k \in ResultFiles :
          /\ files[k].kind = "co" => coding
          /\ files[k].kind = "reg" =>
                (coding <=> (k - 1 \in ResultFiles /\ files[k - 1].kind = "co"))
    /\ pc = "call_co" => coding
    /\ (files # <<>> /\ files[Len(files)].kind = "co") =>
          \/ pc = "call_reg"
          \/ lm.reg_type = "reg" /\ pc \in {"lm_loop", "write_output", "aborted"}
    /\ pc = "done" => files[Len(files)].kind = "reg"

C9_DerivedOnceStep ==
    scoring_matrix # <<>> =>
        /\ scoring_matrix' = scoring_matrix
        /\ thresholds_pwm' = thresholds_pwm
        /\ (lm # <<>> => pvalue_threshold' = pvalue_threshold)

\* C9: a failure of the background, matrix or threshold derivation aborts the
\* run before any record is scanned and any result file written; otherwise
\* the same scoring matrix, minimum score and tier boundaries serve the coding
\* pass (run only when the flag is set) and the regulatory pass, which is not
\* conditioned on the flag and runs after the coding pass.
C9_DerivedOnceUsedByBothPasses == []C9_RunOrder /\ [][C9_DerivedOnceStep]_vars

\* a run with the coding flag that wrote both result files, each with matches
C9_Witness ==
    /\ pc = "done" /\ coding
    /\ Len(files) = 3
    /\ files[2].kind = "co" /\ files[2].content # <<>>
    /\ files[3].kind = "reg" /\ files[3].content # <<>>

====
